---- MODULE Spec2Model ----
(***************************************************************************)
(* Inventory forecasting application (src/src/main.jsx): the sanitizer,    *)
(* the forecast engine generateForecast, the derived analytics of          *)
(* dashboardData, and the edit handlers that change the product list.      *)
(*                                                                         *)
(* Representation                                                          *)
(*  - A JavaScript number is a record [t, v]: t = "num" with the integer   *)
(*    value v, or t = "nan".  Raw (unsanitized) values add the tags        *)
(*    "undef", "null" and "str" (a non-numeric string).                    *)
(*  - A calendar date is the number of days since 1 January of the first   *)
(*    year of the model calendar; years have 365 days.                     *)
(*  - generateForecast divides monthly sales by 30.  Inside the engine     *)
(*    every quantity is therefore held in thirtieths of a unit (Scale),    *)
(*    which keeps the arithmetic exact: stock 36000 means 1200 units.      *)
(*  - The local time zone is a fixed offset: zone = 1 east of UTC, -1 west *)
(*    of UTC, 0 UTC.  utcSkew is the UTC calendar date of "now" minus the  *)
(*    local calendar date of "now".                                        *)
(***************************************************************************)
EXTENDS Integers, Sequences, FiniteSets, TLC

VARIABLES
  skus,           \* the product list (useState)
  warningDays,    \* the warning threshold in days (useState)
  dashboardData,  \* the memo of the derived rows, one per product (useMemo)
  today,          \* local calendar date of the clock
  zone,           \* side of UTC on which the local time zone lies
  utcSkew,        \* UTC calendar date of the clock minus the local one
  edits,          \* number of handlers that have run
  lastOp,         \* the handler that ran last
  budget,         \* number of handlers the run may take
  memoOn,         \* the run follows the memo dashboardData; a run that does
                  \* not leaves it empty and follows the list only
  rawItems,       \* history: the value sanitizeSkus was last called with
  retiredIds,     \* history: the ids of the products deleted so far
  user,           \* the signed-in account the component holds (useState)
  authStatus,     \* status: 'loading', 'unauthenticated', 'authenticated', 'error'
  isInitialLoadDone,      \* the load lock (useState)
  syncStatus,             \* 'ready', 'syncing' or 'error' (useState)
  lastRemoteItemsJSONRef, \* JSON of the list last seen in or sent to the cloud
  itemsTimer,     \* the debounce timer of the cloud auto-save effect
  settingsTimer,  \* the debounce timer of the settings auto-save effect
  localTimer,     \* the debounce timer of the local auto-save effect
  localMemory,    \* what localStorage holds under localKey
  authUser,       \* Firebase Auth: the account that is signed in
  authQueue,      \* Firebase Auth: calls of the auth observer not yet made
  continuations,  \* promises of signOut whose continuation has not run yet
  server,         \* Firestore: the shared document as the server holds it
  pending,        \* Firestore: writes of this client the server has not settled
  listening,      \* Firestore: the snapshot listener of this client is attached
  snapDue,        \* Firestore: the listener has a snapshot to deliver
  readDone,       \* history: a snapshot has been delivered to this client
  failedItems,    \* history: the list of the last items write that failed
  sinceSnapshot   \* history: 'clean' from a snapshot of an existing document
                  \* until the next local change of the list

engineVars == <<skus, warningDays, dashboardData, rawItems, retiredIds>>
clockVars == <<today, zone, utcSkew, budget, memoOn>>
authVars == <<user, authStatus, authUser, authQueue, continuations>>
storeVars == <<server, pending, localMemory>>
timerVars == <<itemsTimer, settingsTimer, localTimer>>
listenerVars == <<listening, snapDue>>
lockVars == <<isInitialLoadDone, syncStatus, lastRemoteItemsJSONRef>>
historyVars == <<readDone, failedItems, sinceSnapshot>>

vars == <<skus, warningDays, dashboardData, today, zone, utcSkew, edits, lastOp,
          budget, memoOn, rawItems, retiredIds, user, authStatus, isInitialLoadDone, syncStatus,
          lastRemoteItemsJSONRef, itemsTimer, settingsTimer, localTimer, localMemory,
          authUser, authQueue, continuations, server, pending, listening, snapDue,
          readDone, failedItems, sinceSnapshot>>

-----------------------------------------------------------------------------
(* Bounds of the model                                                     *)

MaxEdits == 1
MaxCatalogEdits == 2
MaxSyncEvents == 3
MaxInFlight == 2
MaxPOs == 2
MaxSkus == 3
TodayBase == 30
ClockBase == 1000

-----------------------------------------------------------------------------
(* Program constants                                                       *)

Scale == 30
HorizonDays == 400
DefaultWarningDays == 225
SafeMonths == 12
WarningMonths == 6
DaysPerMonth == 30
SafeCoverageDays == 195
MonthsShown == 12

-----------------------------------------------------------------------------
(* JavaScript numbers                                                      *)

Num(n) == [t |-> "num", v |-> n]
NaN == [t |-> "nan", v |-> 0]
Undef == [t |-> "undef", v |-> 0]
Null == [t |-> "null", v |-> 0]
Str == [t |-> "str", v |-> 0]

\* Number(x)
ToNumber(x) ==
  CASE x.t = "num" -> x
    [] x.t = "null" -> Num(0)
    [] OTHER -> NaN

\* x ?? d
Coalesce(x, d) == IF x.t \in {"undef", "null"} THEN d ELSE x

\* Number.isFinite(x) for a number x
IsFinite(x) == x.t = "num"

\* x || 0 for a number or raw value x: 0, NaN, null and undefined are falsy
\* (the non-numeric string of the model is non-empty, hence truthy)
OrZero(x) ==
  IF (x.t = "num" /\ x.v = 0) \/ x.t \in {"nan", "undef", "null"} THEN Num(0) ELSE x

JsAdd(a, b) == IF a.t = "num" /\ b.t = "num" THEN Num(a.v + b.v) ELSE NaN
JsSub(a, b) == IF a.t = "num" /\ b.t = "num" THEN Num(a.v - b.v) ELSE NaN
JsMul(a, b) == IF a.t = "num" /\ b.t = "num" THEN Num(a.v * b.v) ELSE NaN
\* Math.max(0, a)
JsMax0(a) == IF a.t = "num" THEN (IF a.v > 0 THEN a ELSE Num(0)) ELSE NaN
\* a <= b, a < b, a > b: false when either side is NaN
JsLe(a, b) == a.t = "num" /\ b.t = "num" /\ a.v <= b.v
JsLt(a, b) == a.t = "num" /\ b.t = "num" /\ a.v < b.v
JsGt(a, b) == a.t = "num" /\ b.t = "num" /\ a.v > b.v

-----------------------------------------------------------------------------
(* Calendar                                                                *)

MonthStart == <<0, 31, 59, 90, 120, 151, 181, 212, 243, 273, 304, 334>>

\* the month (0 = January) of each day of the year
MonthOfYearDay ==
  [y \in 0..364 |-> CHOOSE m \in 0..11 :
                      /\ MonthStart[m + 1] <= y
                      /\ (m = 11 \/ y < MonthStart[m + 2])]

\* Date.prototype.getMonth of the date d (0 = January)
MonthOf(d) == MonthOfYearDay[d % 365]

\* local calendar date of new Date("YYYY-MM-DD"): the string is parsed as
\* UTC midnight, which west of UTC is still the evening of the day before
ParseLocal(now, d) == IF now.zone = -1 THEN d - 1 ELSE d

\* toISOString().split('T')[0] of a local date that carries the time of day
\* of such a parsed date: the inverse of ParseLocal
IsoOfParsed(now, d) == IF now.zone = -1 THEN d + 1 ELSE d

\* new Date().toISOString().split('T')[0]
TodayIso(now) == now.today + now.utcSkew

\* a date value: a valid calendar date
Date(d) == [t |-> "date", v |-> d]

-----------------------------------------------------------------------------
(* Sanitizer                                                               *)

\* the list of an earlier revision, without 'cancelled' and 'picking'
PoStatusesEarlier ==
  {"pre_order", "ordered", "in_production", "prod_complete",
   "leg1_shipped", "leg1_arrived", "leg2_shipped", "leg2_arrived",
   "inspecting", "bonded_warehouse", "pending_shelving", "shelved"}

PoStatuses ==
  {"pre_order", "ordered", "cancelled", "in_production", "prod_complete",
   "leg1_shipped", "leg1_arrived", "leg2_shipped", "leg2_arrived",
   "inspecting", "picking", "bonded_warehouse", "pending_shelving", "shelved"}

\* sanitizePo that stamps every PO with a new id
sanitizePoFreshId(po, now) ==
  [ id        |-> now.ms,
    orderDate |-> Coalesce(po.orderDate, Date(TodayIso(now))),
    qty       |-> ToNumber(Coalesce(po.qty, Num(0))),
    prodDays  |-> ToNumber(Coalesce(po.prodDays, Num(0))),
    leg1Days  |-> ToNumber(Coalesce(po.leg1Days, Num(0))),
    leg2Days  |-> ToNumber(Coalesce(po.leg2Days, Num(0))),
    leg3Days  |-> ToNumber(Coalesce(po.leg3Days, Num(0))),
    status    |-> IF po.status \in PoStatuses THEN po.status ELSE "ordered" ]

\* one element of posRaw.filter(Boolean).map(...)
sanitizePo(po, now) ==
  [ id        |-> IF IsFinite(ToNumber(po.id)) THEN ToNumber(po.id).v ELSE now.ms,
    orderDate |-> Coalesce(po.orderDate, Date(TodayIso(now))),
    qty       |-> ToNumber(Coalesce(po.qty, Num(0))),
    prodDays  |-> ToNumber(Coalesce(po.prodDays, Num(0))),
    leg1Days  |-> ToNumber(Coalesce(po.leg1Days, Num(0))),
    leg2Days  |-> ToNumber(Coalesce(po.leg2Days, Num(0))),
    leg3Days  |-> ToNumber(Coalesce(po.leg3Days, Num(0))),
    status    |-> IF po.status \in PoStatuses THEN po.status ELSE "ordered" ]

\* one element of safeArr.filter(Boolean).map((sku, idx) => ...); idx1 = idx + 1
sanitizeSku(sku, idx1, now) ==
  LET unitCostRaw == ToNumber(Coalesce(sku.unitCost, Num(0)))
      monthlySalesRaw == IF sku.monthlySales.arr THEN sku.monthlySales.items ELSE <<>>
      posRaw == IF sku.pos.arr THEN sku.pos.items ELSE <<>>
      posKept == SelectSeq(posRaw, LAMBDA po : ~po.falsy)
  IN  [ id           |-> IF IsFinite(ToNumber(sku.id)) THEN ToNumber(sku.id).v ELSE idx1,
        currentStock |-> ToNumber(Coalesce(sku.currentStock, Num(0))),
        unitCost     |-> IF IsFinite(unitCostRaw) /\ unitCostRaw.v >= 0
                         THEN unitCostRaw ELSE Num(0),
        monthlySales |-> [i \in 1..12 |->
                            ToNumber(Coalesce(IF i <= Len(monthlySalesRaw)
                                              THEN monthlySalesRaw[i] ELSE Undef,
                                              Num(0)))],
        pos          |-> [k \in 1..Len(posKept) |-> sanitizePo(posKept[k], now)] ]

\* sanitizeSkus without filter(Boolean)
sanitizeSkusKeepFalsy(items, now) ==
  LET safeArr == IF items.arr THEN items.items ELSE <<>>
  IN  [i \in 1..Len(safeArr) |-> sanitizeSku(safeArr[i], i, now)]

sanitizeSkus(items, now) ==
  LET safeArr == IF items.arr THEN items.items ELSE <<>>
      kept == SelectSeq(safeArr, LAMBDA sku : ~sku.falsy)
  IN  [i \in 1..Len(kept) |-> sanitizeSku(kept[i], i, now)]

\* raw values as they are written in DEFAULT_DATA or arrive from storage
Arr(seq) == [arr |-> TRUE, items |-> seq]
NotArr == [arr |-> FALSE, items |-> <<>>]

RawPo(id, orderDate, qty, prodDays, leg1Days, leg2Days, leg3Days, status) ==
  [ falsy |-> FALSE, id |-> id, orderDate |-> orderDate, qty |-> qty,
    prodDays |-> prodDays, leg1Days |-> leg1Days, leg2Days |-> leg2Days,
    leg3Days |-> leg3Days, status |-> status ]

RawSku(id, currentStock, unitCost, monthlySales, pos) ==
  [ falsy |-> FALSE, id |-> id, currentStock |-> currentStock,
    unitCost |-> unitCost, monthlySales |-> monthlySales, pos |-> pos ]

\* an entry that filter(Boolean) drops (null, undefined, 0, "")
Falsy(entry) == [entry EXCEPT !.falsy = TRUE]

Fill12(x) == [i \in 1..12 |-> x]

DEFAULT_DATA(now) ==
  Arr(<< RawSku(Num(1), Num(1200), Num(0), Arr(Fill12(Num(600))),
                Arr(<< RawPo(Num(101), Date(TodayIso(now)), Num(2500), Num(30),
                             Num(35), Num(15), Num(10), "undefined") >>)),
         RawSku(Num(2), Num(4000), Num(0), Arr(Fill12(Num(800))), Arr(<<>>)) >>)

-----------------------------------------------------------------------------
(* Forecast engine                                                         *)

\* totalLT of a PO with all four legs, each read as Number(x || 0)
totalLT(po) ==
  OrZero(po.prodDays).v + OrZero(po.leg1Days).v
    + OrZero(po.leg2Days).v + OrZero(po.leg3Days).v

\* const arrival = new Date(po.orderDate); arrival.setDate(arrival.getDate() +
\* totalLT); arrival.toISOString().split('T')[0]
\* (defined for a valid orderDate; toISOString throws on an invalid one)
arrivalStr(po, now) == IsoOfParsed(now, ParseLocal(now, po.orderDate.v) + totalLT(po))

\* the POs of a product (sku.pos?.forEach)
PosOf(sku) == sku.pos

\* poIncoming without the test of the status: every PO counts
poIncomingAnyStatus(po, dateStr, now) ==
  IF arrivalStr(po, now) = dateStr THEN Scale * OrZero(po.qty).v ELSE 0

\* the callback of sku.pos.forEach for one PO: what it adds to incomingQty on
\* the day dateStr, in thirtieths (Number(po.qty || 0) unless cancelled or
\* arriving on another day)
poIncoming(po, dateStr, now) ==
  IF po.status = "cancelled" THEN 0
  ELSE IF arrivalStr(po, now) = dateStr THEN Scale * OrZero(po.qty).v ELSE 0

\* the forEach over sku.pos of one loop iteration, from the k-th PO on
RECURSIVE incomingOn(_, _, _, _)
incomingOn(pos, k, dateStr, now) ==
  IF k > Len(pos) THEN 0
  ELSE poIncoming(pos[k], dateStr, now) + incomingOn(pos, k + 1, dateStr, now)

\* dayStatus whose 'low' reaches up to the threshold itself
dayStatusLowInclusive(runningStock, dailyConsumption, wDays) ==
  IF JsLe(runningStock, Num(0)) THEN "stockout"
  ELSE IF JsLe(runningStock, JsMul(dailyConsumption, Num(wDays))) THEN "low"
  ELSE "ok"

\* status of a day from the running stock and the day's consumption
dayStatus(runningStock, dailyConsumption, wDays) ==
  IF JsLe(runningStock, Num(0)) THEN "stockout"
  ELSE IF JsLt(runningStock, JsMul(dailyConsumption, Num(wDays))) THEN "low"
  ELSE "ok"

\* nextRunning with the sign of the consumption turned round
nextRunningGrows(runningStock, dailyConsumption, incomingQty) ==
  JsAdd(JsMax0(JsAdd(runningStock, dailyConsumption)), Num(incomingQty))

\* nextRunning with the arrivals added before the floor at zero
nextRunningFloorLast(runningStock, dailyConsumption, incomingQty) ==
  JsMax0(JsAdd(JsSub(runningStock, dailyConsumption), Num(incomingQty)))

\* nextRunning that forgets what consumption left: runningStock = incomingQty
nextRunningArrivalsOnly(runningStock, dailyConsumption, incomingQty) ==
  Num(incomingQty)

\* runningStock after one day: consumption floored at zero, then arrivals
nextRunning(runningStock, dailyConsumption, incomingQty) ==
  JsAdd(JsMax0(JsSub(runningStock, dailyConsumption)), Num(incomingQty))

\* iteration i of the loop of generateForecast, entered with runningStock
forecastDay(sku, wDays, now, i, runningStock) ==
  LET currentDate == now.today + i
      dateStr == currentDate + now.utcSkew
      month == MonthOf(currentDate)
      dailyConsumption == sku.monthlySales[month + 1]
      incomingQty == incomingOn(PosOf(sku), 1, dateStr, now)
      running == nextRunning(runningStock, dailyConsumption, incomingQty)
      status == dayStatus(running, dailyConsumption, wDays)
  IN  [ runningStock   |-> running,
        runningStocks  |-> <<running>>,
        data           |-> << [date |-> dateStr, stock |-> JsMax0(running),
                               status |-> status, incomingQty |-> incomingQty] >>,
        monthEndStocks |-> IF MonthOf(currentDate + 1) # month
                           THEN << [year |-> currentDate \div 365,
                                    month |-> month + 1,
                                    stock |-> running, status |-> status] >>
                           ELSE <<>> ]

\* the value e, computed after x: TLC suspends operator arguments, and 400
\* suspended days unwound at once exceed its evaluation stack
After(x, e) == IF x = x THEN e ELSE e

\* iterations lo..hi of the loop of generateForecast, entered with
\* runningStock; the range is split in two halves that run one after the
\* other, which is the loop with a recursion depth of log(hi - lo)
RECURSIVE forecastLoop(_, _, _, _, _, _)
forecastLoop(sku, wDays, now, lo, hi, runningStock) ==
  IF lo > hi THEN [runningStock |-> runningStock, runningStocks |-> <<>>,
                   data |-> <<>>, monthEndStocks |-> <<>>]
  ELSE IF lo = hi THEN forecastDay(sku, wDays, now, lo, runningStock)
  ELSE LET mid == (lo + hi) \div 2
           first == forecastLoop(sku, wDays, now, lo, mid, runningStock)
           rest == forecastLoop(sku, wDays, now, mid + 1, hi, first.runningStock)
       IN  After(first.runningStock,
                 [ runningStock   |-> rest.runningStock,
                   runningStocks  |-> first.runningStocks \o rest.runningStocks,
                   data           |-> first.data \o rest.data,
                   monthEndStocks |-> first.monthEndStocks \o rest.monthEndStocks ])

\* generateForecast(sku, days) under the warningDays of the closure.
\* runningStocks is a history of the local variable runningStock, one value
\* per iteration; the returned object of the code does not hold it.
\* ok = FALSE stands for the RangeError that toISOString throws when a
\* non-cancelled PO has an orderDate that is not a date.
generateForecast(sku, days, wDays, now) ==
  IF \E k \in 1..Len(PosOf(sku)) :
       PosOf(sku)[k].status # "cancelled" /\ PosOf(sku)[k].orderDate.t # "date"
  THEN [ok |-> FALSE, data |-> <<>>, currentMonthRate |-> Num(0),
        monthEndStocks |-> <<>>, runningStocks |-> <<>>]
  ELSE LET r == forecastLoop(sku, wDays, now, 0, days,
                             Num(Scale * OrZero(sku.currentStock).v))
       IN  [ok |-> TRUE, data |-> r.data,
            currentMonthRate |-> sku.monthlySales[MonthOf(now.today) + 1],
            monthEndStocks |-> r.monthEndStocks,
            runningStocks |-> r.runningStocks]

-----------------------------------------------------------------------------
(* Derived analytics                                                       *)

SetMin(S) == CHOOSE x \in S : \A y \in S : x <= y
SetMax(S) == CHOOSE x \in S : \A y \in S : x >= y

\* f.data.findIndex(d => d.date === dateStr): 0-based, -1 when absent
findIndexOfDate(data, dateStr) ==
  LET hits == {i \in 1..Len(data) : data[i].date = dateStr}
  IN  IF hits = {} THEN -1 ELSE SetMin(hits) - 1

\* f.data.slice(from).findIndex(d => d.stock <= 0): the index counts from
\* the start of the slice
findStockoutInSlice(data, from) ==
  LET hits == {i \in (from + 1)..Len(data) : JsLe(data[i].stock, Num(0))}
  IN  IF hits = {} THEN -1 ELSE SetMin(hits) - 1 - from

\* the backward scan for the last day with stock > 0
lastPositiveIdx(data) ==
  LET hits == {i \in 1..Len(data) : JsGt(data[i].stock, Num(0))}
  IN  IF hits = {} THEN -1 ELSE SetMax(hits) - 1

activePOs(sku) == SelectSeq(PosOf(sku), LAMBDA po : po.status # "cancelled")

\* earliestArrivalIndex after the forEach over activePOs
earliestArrivalIndex(sku, data, now) ==
  LET act == activePOs(sku)
      idxs == {findIndexOfDate(data, arrivalStr(act[k], now)) : k \in 1..Len(act)} \ {-1}
  IN  IF idxs = {} THEN -1 ELSE SetMin(idxs)

targetDayIndex(sku, data, now) ==
  IF OrZero(sku.currentStock).v = 0 /\ Len(activePOs(sku)) > 0
  THEN LET earliest == earliestArrivalIndex(sku, data, now)
       IN  IF earliest >= 0
           THEN LET remainingDays == findStockoutInSlice(data, earliest)
                IN  IF remainingDays >= 0 THEN remainingDays ELSE HorizonDays
           ELSE HorizonDays
  ELSE LET last == lastPositiveIdx(data)
       IN  IF last > 0 THEN last ELSE 0

\* (daysUntilStockout / 30).toFixed(1), in tenths of a month: the quotient
\* rounded to one decimal (days / 3 is never half-way between two tenths)
monthsUntilStockout(days) == (days + 1) \div 3

\* the comparison of the toFixed string with 12 and with 6
riskLevel(months) ==
  IF months >= 10 * SafeMonths THEN "safe"
  ELSE IF months >= 10 * WarningMonths THEN "warning"
  ELSE "critical"

Safe == [t |-> "safe", v |-> 0]

\* new Date(dateStr).toLocaleDateString()
toLocaleDateString(dateStr, now) == Date(ParseLocal(now, dateStr))

\* the loop that adds up cumulativeConsumption over the series points lo..hi
\* (0-based), in thirtieths: (sku.monthlySales?.[monthIdx] || 0) / 30 with
\* monthIdx = new Date(dateData.date).getMonth()
RECURSIVE cumulativeConsumption(_, _, _, _, _)
cumulativeConsumption(sku, data, lo, hi, now) ==
  IF lo > hi THEN 0
  ELSE IF lo = hi
    THEN OrZero(sku.monthlySales[MonthOf(ParseLocal(now, data[lo + 1].date)) + 1]).v
  ELSE LET mid == (lo + hi) \div 2
       IN  cumulativeConsumption(sku, data, lo, mid, now)
             + cumulativeConsumption(sku, data, mid + 1, hi, now)

\* suggestQty = Math.max(0, cumulativeConsumption - currentStock), in thirtieths
suggestQty(sku, data, now) ==
  LET last == (IF Len(data) < SafeCoverageDays THEN Len(data) ELSE SafeCoverageDays) - 1
      need == cumulativeConsumption(sku, data, 0, last, now)
                - Scale * OrZero(sku.currentStock).v
  IN  IF need > 0 THEN need ELSE 0

\* first day of the month that new Date(year, month, 1) denotes (month may
\* run past December)
FirstOfMonth(year, month) == 365 * (year + month \div 12) + MonthStart[(month % 12) + 1]

\* toISOString().split('T')[0] of the local midnight that begins the day d
IsoOfLocalMidnight(now, d) == IF now.zone = 1 THEN d - 1 ELSE d

\* monthlyAvailability: for each of the 12 months from the current one,
\* whether no series point dated monthStart..monthEnd has stock === 0
monthlyAvailability(data, now) ==
  LET currentYear == now.today \div 365
      currentMonth == MonthOf(now.today)
      zeroDates == {data[n].date : n \in {n \in 1..Len(data) : data[n].stock = Num(0)}}
  IN  [i \in 1..MonthsShown |->
         LET monthStart == IsoOfLocalMidnight(now, FirstOfMonth(currentYear, currentMonth + i - 1))
             monthEnd == IsoOfLocalMidnight(now, FirstOfMonth(currentYear, currentMonth + i) - 1)
         IN  ~ \E d \in zeroDates : d >= monthStart /\ d <= monthEnd]

\* one element of dashboardData; ok = FALSE when generateForecast throws
dashboardRow(sku, wDays, now) ==
  LET f == generateForecast(sku, HorizonDays, wDays, now)
  IN  IF ~f.ok
      THEN [ok |-> FALSE, id |-> sku.id, forecast |-> f, daysUntilStockout |-> 0,
            monthsUntilStockout |-> 0, riskLevel |-> "none",
            finalStockOutDate |-> Safe, orderDateStr |-> Safe, urgency |-> "none",
            suggestQty |-> 0, monthlyAvailability |-> <<>>]
      ELSE
        LET target == targetDayIndex(sku, f.data, now)
            days == IF target > 0 THEN target ELSE 0
            months == monthsUntilStockout(days)
            hit == target < HorizonDays
        IN  [ok |-> TRUE, id |-> sku.id, forecast |-> f,
             daysUntilStockout |-> days,
             monthsUntilStockout |-> months,
             riskLevel |-> riskLevel(months),
             finalStockOutDate |-> IF hit THEN toLocaleDateString(f.data[target + 1].date, now)
                                   ELSE Safe,
             orderDateStr |-> IF hit THEN toLocaleDateString(f.data[target + 1].date, now)
                              ELSE Safe,
             urgency |-> "normal",
             suggestQty |-> suggestQty(sku, f.data, now),
             monthlyAvailability |-> monthlyAvailability(f.data, now)]

\* skus.map(sku => ...) of the dashboardData memo
computeDashboardData(items, wDays, now) ==
  [i \in 1..Len(items) |-> dashboardRow(items[i], wDays, now)]

\* arrivalDate of the poSummary memo
poSummaryArrival(po) == po.orderDate.v + totalLT(po)

\* the arrival of a PO in the monthlyPOs buckets: the local date whose
\* getMonth and getFullYear choose the bucket
monthlyPOsArrival(po, now) == ParseLocal(now, po.orderDate.v) + totalLT(po)

\* arrivalDate of exportPOsToCSV: Number(po.prodDays) + Number(po.leg1Days) +
\* Number(po.leg2Days) days after the order date (NaN: an invalid date)
csvArrivalDate(po) ==
  JsAdd(Num(po.orderDate.v), JsAdd(JsAdd(po.prodDays, po.leg1Days), po.leg2Days))

-----------------------------------------------------------------------------
(* Stored and serialized values                                            *)

\* JSON.parse(JSON.stringify(x)) of a number: NaN is written as null
JsonNumber(x) == IF x.t = "nan" THEN Null ELSE x

\* JSON.parse(JSON.stringify(skuToCopy))
JsonCopy(sku) ==
  [ id           |-> sku.id,
    currentStock |-> JsonNumber(sku.currentStock),
    unitCost     |-> JsonNumber(sku.unitCost),
    monthlySales |-> [m \in 1..12 |-> JsonNumber(sku.monthlySales[m])],
    pos          |-> [j \in 1..Len(sku.pos) |->
                        [ id        |-> sku.pos[j].id,
                          orderDate |-> sku.pos[j].orderDate,
                          qty       |-> JsonNumber(sku.pos[j].qty),
                          prodDays  |-> JsonNumber(sku.pos[j].prodDays),
                          leg1Days  |-> JsonNumber(sku.pos[j].leg1Days),
                          leg2Days  |-> JsonNumber(sku.pos[j].leg2Days),
                          leg3Days  |-> JsonNumber(sku.pos[j].leg3Days),
                          status    |-> sku.pos[j].status ]] ]

\* JSON.stringify(skus) as the ref holds it; the ref starts as ''
Stringify(list) == [text |-> "json", items |-> [k \in 1..Len(list) |-> JsonCopy(list[k])]]
EmptyString == [text |-> "", items |-> <<>>]

\* a sanitized product list as the value that is stored and loaded again
AsRawPo(po) ==
  RawPo(Num(po.id), po.orderDate, po.qty, po.prodDays, po.leg1Days, po.leg2Days,
        po.leg3Days, po.status)
AsRawSku(sku) ==
  RawSku(Num(sku.id), sku.currentStock, sku.unitCost, Arr(sku.monthlySales),
         Arr([j \in 1..Len(sku.pos) |-> AsRawPo(sku.pos[j])]))
AsRaw(items) == Arr([k \in 1..Len(items) |-> AsRawSku(items[k])])

-----------------------------------------------------------------------------
(* State after construction                                                *)

TimeZones == { <<0, 0>>, <<1, 0>>, <<1, -1>>, <<-1, 0>>, <<-1, 1>> }

\* the readings of the clock that the code takes with new Date() and
\* Date.now(), together with the time zone of the browser
clock ==
  [today |-> today, zone |-> zone, utcSkew |-> utcSkew, ms |-> ClockBase + edits]

\* the account names of the model and the configured allow-list (already
\* trimmed and in lower case); NoUser is the null of user and currentUser
NoUser == "none"
Accounts == {"Lead@orynda.cn", "ops@orynda.cn", "guest@example.com"}
ALLOWED_EMAILS == {"lead@orynda.cn", "ops@orynda.cn"}

\* email.toLowerCase()
toLowerCase(email) == IF email = "Lead@orynda.cn" THEN "lead@orynda.cn" ELSE email

\* isEmailAllowed with a list that holds every email
isEmailAllowedAny(email) == TRUE

\* ALLOWED_EMAILS.includes(email.toLowerCase())
isEmailAllowed(email) == toLowerCase(email) \in ALLOWED_EMAILS

\* a timer that is not set, and the three timers when set: each holds the
\* values its callback closes over
IdleTimer == [armed |-> FALSE, skus |-> <<>>, warningDays |-> 0]
ItemsTimerFor(list) == [armed |-> TRUE, skus |-> list, warningDays |-> 0]
SettingsTimerFor(wDays) == [armed |-> TRUE, skus |-> <<>>, warningDays |-> wDays]
LocalTimerFor(list) == [armed |-> TRUE, skus |-> list, warningDays |-> 0]

\* the shared document before anybody has written it
NoDocument == [exists |-> FALSE, items |-> NotArr, hasSettings |-> FALSE, warningDays |-> 0]

\* the first render: nothing in local storage, DEFAULT_DATA is loaded; the
\* auth observer is registered and will be called with the signed-out state
Start ==
  /\ edits = 0
  /\ lastOp = "init"
  /\ today = TodayBase
  /\ \E z \in TimeZones : zone = z[1] /\ utcSkew = z[2]
  /\ warningDays = DefaultWarningDays
  /\ rawItems = DEFAULT_DATA(clock)
  /\ skus = sanitizeSkus(rawItems, clock)
  /\ dashboardData = IF memoOn THEN computeDashboardData(skus, warningDays, clock)
                     ELSE <<>>
  /\ retiredIds = {}
  /\ user = NoUser
  /\ authStatus = "loading"
  /\ isInitialLoadDone = FALSE
  /\ syncStatus = "ready"
  /\ lastRemoteItemsJSONRef = EmptyString
  /\ itemsTimer = IdleTimer
  /\ settingsTimer = IdleTimer
  /\ localTimer = LocalTimerFor(skus)
  /\ localMemory = [present |-> FALSE, skus |-> <<>>]
  /\ authUser = NoUser
  /\ authQueue = <<NoUser>>
  /\ continuations = {}
  /\ server = NoDocument
  /\ pending = <<>>
  /\ listening = FALSE
  /\ snapDue = FALSE
  /\ readDone = FALSE
  /\ failedItems = <<>>
  /\ sinceSnapshot = "dirty"

Init == budget = MaxEdits /\ memoOn = TRUE /\ Start

-----------------------------------------------------------------------------
(* Edit handlers                                                           *)

\* (Math.floor leaves the integers of this model as they are)
clampNonNegativeInt(raw) ==
  LET n == ToNumber(raw)
  IN  IF ~IsFinite(n) \/ n.v < 0 THEN Num(0) ELSE n

SkuIds == {skus[i].id : i \in 1..Len(skus)}

\* setSkus(prev => prev.map(s => s.id === id ? { ...s, [field]: value } : s))
updateSku(id, field, value) ==
  [i \in 1..Len(skus) |->
     IF skus[i].id = id THEN [skus[i] EXCEPT ![field] = value] ELSE skus[i]]

\* itemsSaveAllowed without the test of skus.length
itemsSaveAllowedAnyLength(u, loaded, list) == u # NoUser /\ loaded

\* the condition under which the cloud auto-save effect goes on to compare
\* the list with the ref: signed in, first read done, list not empty
itemsSaveAllowed(u, loaded, list) == u # NoUser /\ loaded /\ Len(list) # 0

\* the effects that run after the render that follows a handler.  skusSet:
\* the handler called setSkus (a new array); settingsSet: it called
\* setDefaultSettings or setTransportModes (new objects); listeningNow and
\* snapDueNow: the listener as the handler left it.  An effect whose
\* dependencies did not change keeps its timer; one that runs again clears
\* its timer first.
Effects(skusSet, settingsSet, listeningNow, snapDueNow) ==
  LET userChanged == user' # user
      loadChanged == isInitialLoadDone' # isInitialLoadDone
      settingsChanged == settingsSet \/ warningDays' # warningDays
  IN  \* 3.1: unsubscribe, and subscribe when a user is set
      /\ listening' = IF userChanged THEN user' # NoUser ELSE listeningNow
      /\ snapDue' = IF userChanged THEN user' # NoUser ELSE snapDueNow
      \* 4.1: local auto-save
      /\ localTimer' = IF skusSet \/ settingsChanged
                       THEN IF Len(skus') = 0 THEN IdleTimer ELSE LocalTimerFor(skus')
                       ELSE localTimer
      \* 4.2: cloud auto-save of the list
      /\ itemsTimer' = IF skusSet \/ userChanged \/ loadChanged
                       THEN IF /\ itemsSaveAllowed(user', isInitialLoadDone', skus')
                               /\ Stringify(skus') # lastRemoteItemsJSONRef'
                            THEN ItemsTimerFor(skus') ELSE IdleTimer
                       ELSE itemsTimer
      \* 4.3: cloud auto-save of the settings
      /\ settingsTimer' = IF settingsChanged \/ userChanged \/ loadChanged
                          THEN IF user' # NoUser /\ isInitialLoadDone'
                               THEN SettingsTimerFor(warningDays') ELSE IdleTimer
                          ELSE settingsTimer

\* the render that follows a handler: the memo is recomputed when one of
\* its dependencies changed; cost is 1 for a step that uses up the budget
\* of the run and 0 for a step the program takes by itself
Rendered(op, cost) ==
  /\ dashboardData' = IF ~memoOn \/ (skus' = skus /\ warningDays' = warningDays)
                      THEN dashboardData
                      ELSE computeDashboardData(skus', warningDays', clock)
  /\ edits' = edits + cost
  /\ lastOp' = op
  /\ UNCHANGED <<today, zone, utcSkew, budget, memoOn>>

\* the render that follows a step that set neither skus nor warningDays: the
\* memo keeps its value
RenderedSame(op, cost) ==
  /\ skus' = skus /\ warningDays' = warningDays
  /\ UNCHANGED dashboardData
  /\ edits' = edits + cost
  /\ lastOp' = op
  /\ UNCHANGED <<today, zone, utcSkew, budget, memoOn>>

\* what every edit handler is followed by: it touches neither the account
\* nor the lock, the ref or the cloud, and the effects run after it
Edited(op) ==
  /\ UNCHANGED <<authVars, storeVars, lockVars, readDone, failedItems>>
  /\ sinceSnapshot' = IF op = "setWarningDays" THEN sinceSnapshot ELSE "dirty"
  /\ Effects(op # "setWarningDays", FALSE, listening, snapDue)
  /\ Rendered(op, 1)

StockInputs == {Num(0), Num(5), Str}

UpdateCurrentStock ==
  /\ edits < budget
  /\ \E id \in SkuIds, raw \in StockInputs :
       skus' = updateSku(id, "currentStock", clampNonNegativeInt(raw))
  /\ UNCHANGED <<warningDays, rawItems, retiredIds>>
  /\ Edited("updateSku")

MonthlyInputs == {Num(0), Num(-1)}
EditMonths == {1}

\* onChange of a monthly sales input: n[i] = clampNonNegativeInt(value)
UpdateMonthlySales ==
  /\ edits < budget
  /\ \E k \in 1..Len(skus), i \in EditMonths, raw \in MonthlyInputs :
       skus' = updateSku(skus[k].id, "monthlySales",
                         [skus[k].monthlySales EXCEPT ![i] = clampNonNegativeInt(raw)])
  /\ UNCHANGED <<warningDays, rawItems, retiredIds>>
  /\ Edited("updateSku")

QuickFillInputs == {Num(0), Num(13), Str}

\* quickFillMonthlySales on the active product: the value is spread over
\* the twelve months, the remainder going to the first months
quickFillMonthlySales(value) ==
  [i \in 1..12 |-> Num((value \div 12) + (IF i <= value % 12 THEN 1 ELSE 0))]

QuickFillMonthlySales ==
  /\ edits < budget
  /\ \E k \in 1..Len(skus), raw \in QuickFillInputs :
       LET value == ToNumber(raw)
       IN  /\ IsFinite(value) /\ value.v >= 0
           /\ skus' = updateSku(skus[k].id, "monthlySales", quickFillMonthlySales(value.v))
  /\ UNCHANGED <<warningDays, rawItems, retiredIds>>
  /\ Edited("quickFillMonthlySales")

\* addSku
AddSku ==
  /\ edits < budget
  /\ Len(skus) < MaxSkus
  /\ LET newId == SetMax(SkuIds \cup {0}) + 1
     IN  skus' = Append(skus, [id |-> newId, currentStock |-> Num(0), unitCost |-> Num(0),
                               monthlySales |-> Fill12(Num(0)), pos |-> <<>>])
  /\ UNCHANGED <<warningDays, rawItems, retiredIds>>
  /\ Edited("addSku")

DefaultSettings ==
  [defaultProdDays |-> 30, defaultLeg1Days |-> 30, defaultLeg2Days |-> 15,
   defaultLeg3Days |-> 0, defaultQty |-> 1000]

\* addPO(skuId); nowMs is the reading of Date.now()
AddPO ==
  /\ edits < budget
  /\ \E k \in 1..Len(skus) :
       /\ Len(skus[k].pos) < MaxPOs
       /\ LET newPO == [id |-> clock.ms, orderDate |-> Date(TodayIso(clock)),
                        qty |-> Num(DefaultSettings.defaultQty),
                        prodDays |-> Num(DefaultSettings.defaultProdDays),
                        leg1Days |-> Num(DefaultSettings.defaultLeg1Days),
                        leg2Days |-> Num(DefaultSettings.defaultLeg2Days),
                        leg3Days |-> Num(DefaultSettings.defaultLeg3Days),
                        status |-> "ordered"]
          IN  skus' = [i \in 1..Len(skus) |->
                         IF skus[i].id = skus[k].id
                         THEN [skus[i] EXCEPT !.pos = Append(skus[i].pos, newPO)]
                         ELSE skus[i]]
  /\ UNCHANGED <<warningDays, rawItems, retiredIds>>
  /\ Edited("addPO")

\* updatePO(skuId, poId, field, value)
updatePO(skuId, poId, field, value) ==
  [i \in 1..Len(skus) |->
     IF skus[i].id = skuId
     THEN [skus[i] EXCEPT !.pos =
             [j \in 1..Len(skus[i].pos) |->
                IF skus[i].pos[j].id = poId
                THEN [skus[i].pos[j] EXCEPT ![field] = value]
                ELSE skus[i].pos[j]]]
     ELSE skus[i]]

QtyInputs == {Num(0), Num(5400), Str}
DayInputs == {Num(0)}
DayFields == {"prodDays", "leg1Days", "leg2Days", "leg3Days"}
StatusInputs == {"cancelled", "ordered"}

\* the values an orderDate input delivers: a date, or the empty string of a
\* cleared input
OrderDateInputs == {Date(TodayIso(clock) - 90), Str}

UpdatePO ==
  /\ edits < budget
  /\ \E k \in 1..Len(skus) : \E j \in 1..Len(skus[k].pos) :
       LET skuId == skus[k].id
           poId == skus[k].pos[j].id
       IN  \/ \E raw \in QtyInputs :
                skus' = updatePO(skuId, poId, "qty", clampNonNegativeInt(raw))
           \/ \E field \in DayFields, raw \in DayInputs :
                skus' = updatePO(skuId, poId, field, clampNonNegativeInt(raw))
           \/ \E v \in StatusInputs : skus' = updatePO(skuId, poId, "status", v)
           \/ \E v \in OrderDateInputs : skus' = updatePO(skuId, poId, "orderDate", v)
  /\ UNCHANGED <<warningDays, rawItems, retiredIds>>
  /\ Edited("updatePO")

\* removePO(skuId, poId)
RemovePO ==
  /\ edits < budget
  /\ \E k \in 1..Len(skus) : \E j \in 1..Len(skus[k].pos) :
       skus' = [i \in 1..Len(skus) |->
                  IF skus[i].id = skus[k].id
                  THEN [skus[i] EXCEPT !.pos =
                          SelectSeq(skus[i].pos, LAMBDA p : p.id # skus[k].pos[j].id)]
                  ELSE skus[i]]
  /\ UNCHANGED <<warningDays, rawItems, retiredIds>>
  /\ Edited("removePO")

\* deleteSku(skuId), the confirm dialog answered with yes (answered with no
\* it changes nothing); retiredIds records the id that leaves the list
DeleteSku ==
  /\ edits < budget
  /\ \E k \in 1..Len(skus) :
       /\ skus' = SelectSeq(skus, LAMBDA s : s.id # skus[k].id)
       /\ retiredIds' = retiredIds \cup {skus[k].id}
  /\ UNCHANGED <<warningDays, rawItems>>
  /\ Edited("deleteSku")

\* duplicateSku(skuId)
DuplicateSku ==
  /\ edits < budget
  /\ Len(skus) < MaxSkus
  /\ \E k \in 1..Len(skus) :
       LET skuToCopy == skus[CHOOSE i \in 1..Len(skus) :
                              /\ skus[i].id = skus[k].id
                              /\ \A h \in 1..(i - 1) : skus[h].id # skus[k].id]
           newId == SetMax(SkuIds \cup {0}) + 1
       IN  skus' = Append(skus, [JsonCopy(skuToCopy) EXCEPT !.id = newId])
  /\ UNCHANGED <<warningDays, rawItems, retiredIds>>
  /\ Edited("duplicateSku")

\* duplicatePO(skuId, poId): a copy of the PO with a new id, ordered today
DuplicatePO ==
  /\ edits < budget
  /\ \E k \in 1..Len(skus) : \E j \in 1..Len(skus[k].pos) :
       /\ Len(skus[k].pos) < MaxPOs
       /\ LET newPO == [skus[k].pos[j] EXCEPT !.id = clock.ms,
                                              !.orderDate = Date(TodayIso(clock)),
                                              !.status = "ordered"]
          IN  skus' = [i \in 1..Len(skus) |->
                         IF skus[i].id = skus[k].id
                         THEN [skus[i] EXCEPT !.pos = Append(skus[i].pos, newPO)]
                         ELSE skus[i]]
  /\ UNCHANGED <<warningDays, rawItems, retiredIds>>
  /\ Edited("duplicatePO")

\* the arrays a chosen JSON file can hold
ImportFiles ==
  { << RawPo(Undef, Undef, Num(40), Num(-3), Str, Undef, Num(9), "cancelled") >>,
    << RawPo(Num(101), Date(TodayBase), Undef, Num(5), Num(0), Num(0), Undef, "undefined"),
       RawPo(Num(101), Date(TodayBase), Num(7), Num(5), Num(0), Num(0), Undef, "undefined") >> }

\* one element of imported.map((po, idx) => ...): leg3Days and status are
\* not among the fields it writes
importedPo(po, idx, now) ==
  [ id        |-> IF IsFinite(ToNumber(po.id)) THEN ToNumber(po.id).v ELSE now.ms + idx,
    orderDate |-> Coalesce(po.orderDate, Date(TodayIso(now))),
    qty       |-> clampNonNegativeInt(Coalesce(po.qty, Num(0))),
    prodDays  |-> clampNonNegativeInt(Coalesce(po.prodDays, Num(0))),
    leg1Days  |-> clampNonNegativeInt(Coalesce(po.leg1Days, Num(0))),
    leg2Days  |-> clampNonNegativeInt(Coalesce(po.leg2Days, Num(0))),
    leg3Days  |-> Undef,
    status    |-> "undefined" ]

\* reader.onload of importPOsFromJSON for a file that holds an array; the
\* POs are appended to the active product
ImportPOs ==
  /\ edits < budget
  /\ \E k \in 1..Len(skus), imported \in ImportFiles :
       /\ Len(skus[k].pos) + Len(imported) <= MaxPOs
       /\ LET sanitized == [n \in 1..Len(imported) |->
                              importedPo(imported[n], n - 1, clock)]
          IN  skus' = [i \in 1..Len(skus) |->
                         IF skus[i].id = skus[k].id
                         THEN [skus[i] EXCEPT !.pos = skus[i].pos \o sanitized]
                         ELSE skus[i]]
  /\ UNCHANGED <<warningDays, rawItems, retiredIds>>
  /\ Edited("importPOs")

WarningInputs == {0, 30}

\* onChange of the warning days input: setWarningDays(Number(value))
SetWarningDays ==
  /\ edits < budget
  /\ \E v \in WarningInputs : warningDays' = v
  /\ UNCHANGED <<skus, rawItems, retiredIds>>
  /\ Edited("setWarningDays")

\* documents a snapshot of the remote store can deliver
RemoteDocs ==
  { [ items |-> Arr(<< RawSku(Num(2), Num(0), Num(0), Arr(Fill12(Num(300))),
                              Arr(<< RawPo(Num(7), Undef, Num(-20), Num(10), Num(0),
                                           Num(0), Num(0), "in_production") >>)),
                       Falsy(RawSku(Undef, Undef, Undef, NotArr, NotArr)),
                       RawSku(Undef, Num(-5), Num(-1),
                              Arr(<<Str, Num(300)>>),
                              Arr(<< RawPo(Undef, Undef, Num(-20), Num(-3), Undef,
                                           Str, Num(2), "bogus"),
                                     Falsy(RawPo(Undef, Undef, Undef, Undef, Undef,
                                                 Undef, Undef, "undefined")),
                                     RawPo(Undef, Undef, Num(4), Num(1), Num(1),
                                           Num(1), Num(1), "cancelled") >>)) >>),
      warningDays |-> Undef ],
    [ items |-> Arr(<< RawSku(Num(5), Num(0), Num(0), Arr(Fill12(Num(300))),
                              Arr(<< RawPo(Num(9), Date(TodayBase - 120), Num(500), Num(30),
                                           Num(30), Num(15), Num(0), "ordered") >>)) >>),
      warningDays |-> Undef ],
    [ items |-> NotArr, warningDays |-> Num(90) ] }

\* the ref after the success callback of onSnapshot has seen remoteData
refAfterSnapshot(remoteData) == Stringify(remoteData)

\* the branch docSnap.exists() of the callback, for the document data doc
snapshotExists(doc) ==
  LET remoteData == sanitizeSkus(doc.items, clock)
  IN  /\ rawItems' = doc.items
      /\ lastRemoteItemsJSONRef' = refAfterSnapshot(remoteData)
      /\ skus' = remoteData
      /\ warningDays' = IF OrZero(doc.warningDays).v # 0 THEN doc.warningDays.v
                        ELSE warningDays
      /\ syncStatus' = "ready"
      /\ isInitialLoadDone' = TRUE
      /\ readDone' = TRUE
      /\ sinceSnapshot' = "clean"
      /\ UNCHANGED <<retiredIds, failedItems>>

OnSnapshot ==
  /\ edits < budget
  /\ \E doc \in RemoteDocs : snapshotExists(doc)
  /\ UNCHANGED <<authVars, storeVars>>
  /\ Effects(TRUE, FALSE, listening, snapDue)
  /\ Rendered("onSnapshot", 1)

-----------------------------------------------------------------------------
(* Authentication and synchronisation                                      *)
(*                                                                         *)
(* Firebase Auth and Firestore are the environment.  Auth holds the        *)
(* signed-in account and calls the observer once per change, in order.     *)
(* Firestore holds the document; a setDoc of this client is pending until  *)
(* the server accepts or rejects it, and the listener of this client sees  *)
(* the server's document overlaid with its own pending writes.             *)

\* setDoc(docRef, data, { merge: true }) applied to a document
Merge(doc, write) ==
  [ exists      |-> TRUE,
    items       |-> IF write.hasItems THEN write.items ELSE doc.items,
    hasSettings |-> doc.hasSettings \/ write.hasSettings,
    warningDays |-> IF write.hasSettings THEN write.warningDays ELSE doc.warningDays ]

\* the document with the writes of a queue applied in order
Overlay(doc, writes) ==
  LET applied[k \in 0..Len(writes)] ==
        IF k = 0 THEN doc ELSE Merge(applied[k - 1], writes[k])
  IN  applied[Len(writes)]

\* docSnap of the next call of the listener; docSnap.data().warningDays is
\* read as a raw value
View == Overlay(server, pending)
DocData(doc) ==
  [items |-> doc.items,
   warningDays |-> IF doc.hasSettings THEN Num(doc.warningDays) ELSE Undef]

\* the three setDoc calls of the component
ItemsWrite(list) ==
  [kind |-> "items", hasItems |-> TRUE, items |-> AsRaw(list), list |-> list,
   hasSettings |-> FALSE, warningDays |-> 0]
SettingsWrite(wDays) ==
  [kind |-> "settings", hasItems |-> FALSE, items |-> NotArr, list |-> <<>>,
   hasSettings |-> TRUE, warningDays |-> wDays]
BootstrapWrite(list, wDays) ==
  [kind |-> "bootstrap", hasItems |-> TRUE, items |-> AsRaw(list), list |-> list,
   hasSettings |-> TRUE, warningDays |-> wDays]

\* the account changes outside this page: a session restored at start, or a
\* sign-in or sign-out in another page that shares the auth state
AuthStateChanges ==
  /\ edits < budget
  /\ \E a \in (Accounts \cup {NoUser}) \ {authUser} :
       /\ authUser' = a
       /\ authQueue' = Append(authQueue, a)
  /\ UNCHANGED <<engineVars, clockVars, user, authStatus, continuations, storeVars,
                 timerVars, listenerVars, lockVars, historyVars>>
  /\ edits' = edits + 1
  /\ lastOp' = "authStateChanges"

\* handleLogin with a password that is right: an email that is not allowed
\* gets the error message and nothing else
HandleLogin ==
  /\ edits < budget
  /\ authStatus = "unauthenticated"
  /\ \E loginEmail \in Accounts :
       IF isEmailAllowed(loginEmail) /\ loginEmail # authUser
       THEN /\ authUser' = loginEmail
            /\ authQueue' = Append(authQueue, loginEmail)
       ELSE UNCHANGED <<authUser, authQueue>>
  /\ UNCHANGED <<engineVars, clockVars, user, authStatus, continuations, storeVars,
                 timerVars, listenerVars, lockVars, historyVars>>
  /\ edits' = edits + 1
  /\ lastOp' = "handleLogin"

\* signOut(auth): the account is signed out and the observer will be told
SignedOut ==
  /\ authUser' = NoUser
  /\ authQueue' = IF authUser = NoUser THEN authQueue ELSE Append(authQueue, NoUser)

\* handleLogout up to its await
HandleLogout ==
  /\ edits < budget
  /\ authStatus = "authenticated"
  /\ SignedOut
  /\ continuations' = continuations \cup {"logout"}
  /\ UNCHANGED <<engineVars, clockVars, user, authStatus, storeVars,
                 timerVars, listenerVars, lockVars, historyVars>>
  /\ edits' = edits + 1
  /\ lastOp' = "handleLogout"

\* the callback of onAuthStateChanged for the oldest change not yet seen
AuthObserver ==
  /\ authQueue # <<>>
  /\ LET currUser == Head(authQueue)
     IN  IF currUser # NoUser /\ ~isEmailAllowed(currUser)
         THEN \* signOut(auth).then(...); return
              /\ authUser' = NoUser
              /\ authQueue' = IF authUser = NoUser THEN Tail(authQueue)
                              ELSE Append(Tail(authQueue), NoUser)
              /\ continuations' = continuations \cup {"denied"}
              /\ UNCHANGED <<user, authStatus>>
         ELSE /\ user' = currUser
              /\ authStatus' = IF currUser # NoUser THEN "authenticated"
                               ELSE "unauthenticated"
              /\ authQueue' = Tail(authQueue)
              /\ UNCHANGED <<authUser, continuations>>
  /\ UNCHANGED <<skus, warningDays, rawItems, retiredIds, storeVars, lockVars,
                 historyVars>>
  /\ Effects(FALSE, FALSE, listening, snapDue)
  /\ RenderedSame("authObserver", 0)

\* what follows a settled signOut: in the observer setUser(null) and
\* setStatus('unauthenticated'), in handleLogout setSkus([])
SignOutContinues ==
  /\ UNCHANGED <<warningDays, rawItems, retiredIds, authUser, authQueue, storeVars,
                 lockVars, readDone, failedItems>>
  /\ \E c \in continuations :
       /\ continuations' = continuations \ {c}
       /\ IF c = "denied"
          THEN /\ user' = NoUser
               /\ authStatus' = "unauthenticated"
               /\ UNCHANGED <<skus, sinceSnapshot>>
               /\ Effects(FALSE, FALSE, listening, snapDue)
          ELSE /\ skus' = <<>>
               /\ sinceSnapshot' = "dirty"
               /\ UNCHANGED <<user, authStatus>>
               /\ Effects(TRUE, FALSE, listening, snapDue)
  /\ Rendered("signOutContinues", 0)

\* the list the callback takes when the document does not exist
bootstrap ==
  IF localMemory.present /\ Len(localMemory.skus) > 0
  THEN AsRaw(localMemory.skus) ELSE DEFAULT_DATA(clock)

\* the success callback of onSnapshot for the document the listener holds
SnapshotDelivered ==
  /\ listening /\ snapDue
  /\ IF View.exists
     THEN /\ \E docSnap \in {View} :
               /\ \E data \in {DocData(docSnap)} : snapshotExists(data)
               /\ UNCHANGED <<authVars, storeVars>>
               /\ Effects(TRUE, docSnap.hasSettings, TRUE, FALSE)
     ELSE /\ Len(pending) < MaxInFlight
          /\ rawItems' = bootstrap
          /\ \E items \in {rawItems'} : skus' = sanitizeSkus(items, clock)
          /\ pending' = Append(pending, BootstrapWrite(skus', warningDays))
          /\ syncStatus' = "ready"
          /\ isInitialLoadDone' = TRUE
          /\ readDone' = TRUE
          /\ sinceSnapshot' = "dirty"
          /\ UNCHANGED <<warningDays, retiredIds, failedItems, lastRemoteItemsJSONRef,
                         authVars, server, localMemory>>
          /\ Effects(TRUE, FALSE, TRUE, TRUE)
  /\ Rendered("snapshotDelivered", 0)

\* the error callback of onSnapshot; the listener ends with it
ListenerError ==
  /\ edits < budget
  /\ listening
  /\ syncStatus' = "error"
  /\ isInitialLoadDone' = TRUE
  /\ UNCHANGED <<skus, warningDays, rawItems, retiredIds, authVars, storeVars,
                 lastRemoteItemsJSONRef, historyVars>>
  /\ Effects(FALSE, FALSE, FALSE, FALSE)
  /\ RenderedSame("listenerError", 1)

\* the callback of remoteTimer up to its await: setSyncStatus('syncing') and
\* setDoc of the list the effect closed over
ItemsTimerFires ==
  /\ itemsTimer.armed
  /\ Len(pending) < MaxInFlight
  /\ syncStatus' = "syncing"
  /\ pending' = Append(pending, ItemsWrite(itemsTimer.skus))
  /\ itemsTimer' = IdleTimer
  /\ snapDue' = listening
  /\ UNCHANGED <<skus, warningDays, rawItems, retiredIds, authVars, server, localMemory,
                 settingsTimer, localTimer, listening, isInitialLoadDone,
                 lastRemoteItemsJSONRef, historyVars>>
  /\ RenderedSame("itemsTimerFires", 0)

\* the callback of settingsTimer up to its await
SettingsTimerFires ==
  /\ settingsTimer.armed
  /\ Len(pending) < MaxInFlight
  /\ pending' = Append(pending, SettingsWrite(settingsTimer.warningDays))
  /\ settingsTimer' = IdleTimer
  /\ snapDue' = listening
  /\ UNCHANGED <<skus, warningDays, rawItems, retiredIds, authVars, server, localMemory,
                 itemsTimer, localTimer, listening, lockVars, historyVars>>
  /\ RenderedSame("settingsTimerFires", 0)

\* the callback of the local timer: saveLocalMemory writes the list as JSON
LocalTimerFires ==
  /\ localTimer.armed
  /\ localMemory' = [present |-> TRUE, skus |-> Stringify(localTimer.skus).items]
  /\ localTimer' = IdleTimer
  /\ UNCHANGED <<skus, warningDays, rawItems, retiredIds, authVars, server, pending,
                 itemsTimer, settingsTimer, listenerVars, lockVars, historyVars>>
  /\ RenderedSame("localTimerFires", 0)

\* the server accepts the oldest pending write; what follows the await
WriteAccepted ==
  /\ pending # <<>>
  /\ LET write == Head(pending)
     IN  /\ server' = Merge(server, write)
         /\ pending' = Tail(pending)
         /\ lastRemoteItemsJSONRef' = IF write.kind = "settings" THEN lastRemoteItemsJSONRef
                                      ELSE Stringify(write.list)
         /\ syncStatus' = IF write.kind = "items" THEN "ready" ELSE syncStatus
         /\ failedItems' = IF write.kind = "items" THEN <<>> ELSE failedItems
  /\ UNCHANGED <<skus, warningDays, rawItems, retiredIds, authVars, localMemory,
                 timerVars, listenerVars, isInitialLoadDone, readDone, sinceSnapshot>>
  /\ RenderedSame("writeAccepted", 0)

\* the server rejects the oldest pending write; the catch branch.  The
\* listener sees the document without the write again.
WriteRejected ==
  /\ edits < budget
  /\ pending # <<>>
  /\ LET write == Head(pending)
     IN  /\ pending' = Tail(pending)
         /\ syncStatus' = IF write.kind = "settings" THEN syncStatus ELSE "error"
         /\ failedItems' = IF write.kind = "items" THEN write.list ELSE failedItems
  /\ snapDue' = listening
  /\ UNCHANGED <<skus, warningDays, rawItems, retiredIds, authVars, server, localMemory,
                 timerVars, listening, isInitialLoadDone, lastRemoteItemsJSONRef,
                 readDone, sinceSnapshot>>
  /\ RenderedSame("writeRejected", 1)

\* the lists another client of the shared document writes
OtherClientLists ==
  { Arr(<< RawSku(Num(1), Num(50), Num(0), Arr(Fill12(Num(30))), Arr(<<>>)) >>) }

OtherClientWrites ==
  /\ edits < budget
  /\ \E list \in OtherClientLists :
       /\ server.items # list
       /\ server' = [server EXCEPT !.exists = TRUE, !.items = list]
  /\ snapDue' = listening
  /\ UNCHANGED <<engineVars, clockVars, authVars, pending, localMemory, timerVars,
                 listening, lockVars, historyVars>>
  /\ edits' = edits + 1
  /\ lastOp' = "otherClientWrites"

\* the main view, with its inputs and buttons, is rendered for an
\* authenticated user only
EditStock == authStatus = "authenticated" /\ UpdateCurrentStock
EditDelete == authStatus = "authenticated" /\ DeleteSku

Next ==
  \/ UpdateCurrentStock
  \/ UpdateMonthlySales
  \/ QuickFillMonthlySales
  \/ AddSku
  \/ AddPO
  \/ UpdatePO
  \/ RemovePO
  \/ SetWarningDays
  \/ OnSnapshot

Spec == Init /\ [][Next]_vars

\* the product list and its POs under the handlers that create and delete
\* entries, in a browser on UTC
InitCatalog ==
  budget = MaxCatalogEdits /\ memoOn = TRUE /\ Start /\ zone = 0 /\ utcSkew = 0

NextCatalog ==
  \/ AddSku
  \/ DuplicateSku
  \/ DeleteSku
  \/ AddPO
  \/ DuplicatePO
  \/ ImportPOs
  \/ RemovePO

SpecCatalog == InitCatalog /\ [][NextCatalog]_vars

\* the account, the listener and the auto-save effects around a list that
\* is edited, in a browser on UTC; the memo of the derived rows, a function
\* of the list and of warningDays, is not followed
InitSync ==
  budget = MaxSyncEvents /\ memoOn = FALSE /\ Start /\ zone = 0 /\ utcSkew = 0

NextSync ==
  \/ AuthStateChanges
  \/ HandleLogin
  \/ HandleLogout
  \/ AuthObserver
  \/ SignOutContinues
  \/ SnapshotDelivered
  \/ ListenerError
  \/ ItemsTimerFires
  \/ SettingsTimerFires
  \/ LocalTimerFires
  \/ WriteAccepted
  \/ WriteRejected
  \/ OtherClientWrites
  \/ EditStock
  \/ EditDelete

SpecSync == InitSync /\ [][NextSync]_vars

\* the steps the program and the services take by themselves happen when
\* they can: callbacks are called, timers fire, accepted writes settle
SyncFairness ==
  /\ WF_vars(AuthObserver)
  /\ WF_vars(SignOutContinues)
  /\ WF_vars(SnapshotDelivered)
  /\ WF_vars(ItemsTimerFires)
  /\ WF_vars(SettingsTimerFires)
  /\ WF_vars(LocalTimerFires)
  /\ WF_vars(WriteAccepted)

\* the synchronisation of one page with a server that may refuse a read or
\* a write, and a user who logs in and then only watches: every step the
\* program takes by itself, the login and the two failures.  No signOut is
\* started in it, so SignOutContinues is never enabled and its behaviours
\* are behaviours of SpecSync that meet SyncFairness.
NextSyncFair ==
  \/ HandleLogin
  \/ AuthObserver
  \/ SnapshotDelivered
  \/ ListenerError
  \/ ItemsTimerFires
  \/ SettingsTimerFires
  \/ LocalTimerFires
  \/ WriteAccepted
  \/ WriteRejected

SpecSyncFair == InitSync /\ [][NextSyncFair]_vars /\ SyncFairness

-----------------------------------------------------------------------------
(* Properties                                                              *)

Products == 1..Len(skus)
Days == 0..HorizonDays

\* the series point of day i of product k, and the consumption of that day
Point(k, i) == dashboardData[k].forecast.data[i + 1]
RunningAt(k, i) == dashboardData[k].forecast.runningStocks[i + 1]
ConsumptionAt(k, i) == skus[k].monthlySales[MonthOf(today + i) + 1]

\* the running stock with which day i of product k is entered
RunningBefore(k, i) ==
  IF i = 0 THEN Num(Scale * OrZero(skus[k].currentStock).v) ELSE RunningAt(k, i - 1)

\* max(0, prev - cons) + incoming in integers (NaN when an operand is NaN)
FloorThenAdd(prev, cons, incoming) ==
  IF prev.t = "nan" \/ cons.t = "nan" THEN NaN
  ELSE Num((IF prev.v > cons.v THEN prev.v - cons.v ELSE 0) + incoming)

\* C1: on every day of the horizon the new running stock of generateForecast
\* is max(0, previous running stock - the day's consumption) + the day's
\* incoming quantity: the floor at zero is applied before arrivals are added.
C1_FloorThenArrivals ==
  \A k \in Products : dashboardData[k].ok =>
    \A i \in Days :
      RunningAt(k, i) = FloorThenAdd(RunningBefore(k, i), ConsumptionAt(k, i),
                                     Point(k, i).incomingQty)

\* C1 witness: a day on which consumption alone exceeds the stock left and a
\* PO arrives, so that the day ends with exactly the arriving quantity
C1_Witness ==
  \E k \in Products : dashboardData[k].ok /\
    \E i \in Days :
      /\ Point(k, i).incomingQty > 0
      /\ RunningBefore(k, i).t = "num" /\ ConsumptionAt(k, i).t = "num"
      /\ RunningBefore(k, i).v < ConsumptionAt(k, i).v
      /\ RunningAt(k, i) = Num(Point(k, i).incomingQty)

\* the product sku without its j-th PO
WithoutPO(sku, j) ==
  [sku EXCEPT !.pos = [n \in 1..(Len(sku.pos) - 1) |->
                         IF n < j THEN sku.pos[n] ELSE sku.pos[n + 1]]]

\* C2: for every product and every PO of it whose status is 'cancelled',
\* the daily series generateForecast produces is the series it produces for
\* the product with that PO removed (same date, stock, status and incomingQty
\* on every day), whatever the PO's qty and dates.
C2_CancelledIsRemoved ==
  \A k \in Products : \A j \in 1..Len(skus[k].pos) :
    skus[k].pos[j].status = "cancelled" =>
      LET g == generateForecast(WithoutPO(skus[k], j), HorizonDays, warningDays, clock)
      IN  /\ g.ok = dashboardData[k].forecast.ok
          /\ g.data = dashboardData[k].forecast.data

\* C2 witness: a PO with a positive qty and a valid order date has been set
\* to 'cancelled', and no day of the series receives anything
C2_Witness ==
  /\ lastOp = "updatePO"
  /\ \E k \in Products : \E j \in 1..Len(skus[k].pos) :
       /\ skus[k].pos[j].status = "cancelled"
       /\ skus[k].pos[j].orderDate.t = "date"
       /\ OrZero(skus[k].pos[j].qty).v > 0
       /\ dashboardData[k].ok
       /\ \A i \in Days : Point(k, i).incomingQty = 0

\* C3 (as claimed): every point of every series returned by generateForecast
\* has a stock that is a number >= 0.
C3_StockNeverNegative ==
  \A k \in Products : dashboardData[k].ok =>
    \A i \in Days : Point(k, i).stock.t = "num" /\ Point(k, i).stock.v >= 0

FiniteNonNegative(x) == x.t = "num" /\ x.v >= 0

\* C4 (as claimed): after sanitizeSkus every numeric field is finite and not
\* negative: currentStock, unitCost, the 12 monthlySales, and every PO's qty,
\* prodDays, leg1Days, leg2Days and leg3Days.
C4_SanitizedNumbersNonNegative ==
  lastOp \in {"init", "onSnapshot"} =>
    \A k \in Products :
      /\ FiniteNonNegative(skus[k].currentStock)
      /\ FiniteNonNegative(skus[k].unitCost)
      /\ \A m \in 1..12 : FiniteNonNegative(skus[k].monthlySales[m])
      /\ \A j \in 1..Len(skus[k].pos) :
           /\ FiniteNonNegative(skus[k].pos[j].qty)
           /\ FiniteNonNegative(skus[k].pos[j].prodDays)
           /\ FiniteNonNegative(skus[k].pos[j].leg1Days)
           /\ FiniteNonNegative(skus[k].pos[j].leg2Days)
           /\ FiniteNonNegative(skus[k].pos[j].leg3Days)

\* a product with all twelve monthlySales 0 and no POs
Idle(k) ==
  /\ \A m \in 1..12 : skus[k].monthlySales[m] = Num(0)
  /\ Len(skus[k].pos) = 0

\* the series of product k never leaves currentStock and is 'ok' throughout
NeverMoves(k) ==
  /\ dashboardData[k].ok
  /\ \A i \in Days :
       /\ Point(k, i).stock = Num(Scale * skus[k].currentStock.v)
       /\ Point(k, i).status = "ok"
  /\ \A n \in 1..Len(dashboardData[k].forecast.monthEndStocks) :
       /\ dashboardData[k].forecast.monthEndStocks[n].stock
            = Num(Scale * skus[k].currentStock.v)
       /\ dashboardData[k].forecast.monthEndStocks[n].status = "ok"

\* C5 (amended): for a product with all twelve monthlySales 0, no POs and a
\* currentStock > 0, every day's stock equals currentStock and every day and
\* every month-end point has status 'ok'.
C5_IdlePositiveStockNeverMoves ==
  \A k \in Products :
    (Idle(k) /\ skus[k].currentStock.t = "num" /\ skus[k].currentStock.v > 0)
      => NeverMoves(k)

\* C5 witness: a stocked product without POs whose monthly sales have all
\* been set to 0
C5_Witness ==
  \E k \in Products :
    /\ Idle(k) /\ skus[k].currentStock.t = "num" /\ skus[k].currentStock.v > 0
    /\ lastOp = "quickFillMonthlySales"
    /\ Len(dashboardData[k].forecast.monthEndStocks) > 12

\* C5 (as claimed): the same for whatever currentStock
C5_IdleNeverMoves ==
  \A k \in Products : Idle(k) => NeverMoves(k)

\* a JavaScript number x times Scale
Scaled(x) == IF x.t = "num" THEN Num(Scale * x.v) ELSE NaN

\* the non-cancelled POs of product k, by position
ActiveAt(k) == {j \in 1..Len(skus[k].pos) : skus[k].pos[j].status # "cancelled"}

\* product k has no stock, the same positive sales in all twelve months, and
\* exactly one non-cancelled PO, the j-th, ordered today with a total lead
\* time inside the horizon
ZeroStockOnePO(k, j) ==
  /\ dashboardData[k].ok
  /\ skus[k].currentStock = Num(0)
  /\ skus[k].monthlySales[1].t = "num" /\ skus[k].monthlySales[1].v > 0
  /\ \A m \in 1..12 : skus[k].monthlySales[m] = skus[k].monthlySales[1]
  /\ ActiveAt(k) = {j}
  /\ skus[k].pos[j].orderDate = Date(TodayIso(clock))
  /\ totalLT(skus[k].pos[j]) > 0 /\ totalLT(skus[k].pos[j]) <= HorizonDays

\* C6 (as claimed): with currentStock 0, a constant positive rate r and one
\* non-cancelled PO of qty Q ordered today with lead time L, every day before
\* L has stock 0 and status 'stockout', day L has stock exactly Q, and every
\* later day has the stock of the day before minus r, floored at 0.
C6_ZeroStockThenArrival ==
  \A k \in Products : \A j \in 1..Len(skus[k].pos) :
    ZeroStockOnePO(k, j) =>
      LET L == totalLT(skus[k].pos[j])
          r == skus[k].monthlySales[1]
      IN  /\ \A i \in 0..(L - 1) :
               Point(k, i).stock = Num(0) /\ Point(k, i).status = "stockout"
          /\ Point(k, L).stock = Scaled(skus[k].pos[j].qty)
          /\ \A i \in (L + 1)..HorizonDays :
               Point(k, i).stock = FloorThenAdd(Point(k, i - 1).stock, r, 0)

\* orderDate + prodDays + leg1Days + leg2Days + leg3Days as a calendar date
DueDate(po) ==
  po.orderDate.v + po.prodDays.v + po.leg1Days.v + po.leg2Days.v + po.leg3Days.v

\* a PO whose order date is a date and whose lead times are numbers
WellFormedPO(po) ==
  /\ po.orderDate.t = "date"
  /\ \A f \in DayFields : po[f].t = "num"

\* C7 (as claimed): the forecast loop and the earliest-arrival lookup, the
\* monthly PO buckets, the PO summary and the CSV export all place the
\* arrival of a PO on orderDate + prodDays + leg1Days + leg2Days + leg3Days.
C7_OneArrivalDate ==
  \A k \in Products : \A j \in 1..Len(skus[k].pos) :
    WellFormedPO(skus[k].pos[j]) =>
      /\ arrivalStr(skus[k].pos[j], clock) = DueDate(skus[k].pos[j])
      /\ monthlyPOsArrival(skus[k].pos[j], clock) = DueDate(skus[k].pos[j])
      /\ poSummaryArrival(skus[k].pos[j]) = DueDate(skus[k].pos[j])
      /\ csvArrivalDate(skus[k].pos[j]) = Num(DueDate(skus[k].pos[j]))

\* C8 (as claimed): the risk tier is 'safe' exactly when d / 30 >= 12,
\* 'warning' exactly when 6 <= d / 30 < 12 and 'critical' exactly when
\* d / 30 < 6, d being the target day index.
C8_RiskTierByThirtieths ==
  \A k \in Products : dashboardData[k].ok =>
    LET d == dashboardData[k].daysUntilStockout
    IN  dashboardData[k].riskLevel =
          (IF d >= DaysPerMonth * SafeMonths THEN "safe"
           ELSE IF d >= DaysPerMonth * WarningMonths THEN "warning"
           ELSE "critical")

\* product k runs out inside the horizon
RunsOut(k) == dashboardData[k].ok /\ dashboardData[k].finalStockOutDate # Safe

\* C9 (as claimed): for a product that runs out inside the horizon the
\* reorder date orderDateStr is the exhaustion date minus warningDays days,
\* and urgency is 'critical' exactly when that date is earlier than now,
\* 'normal' otherwise.
C9_ReorderDateAndUrgency ==
  \A k \in Products : RunsOut(k) =>
    LET due == dashboardData[k].finalStockOutDate.v - warningDays
    IN  /\ dashboardData[k].orderDateStr = Date(due)
        /\ dashboardData[k].urgency = (IF due < today THEN "critical" ELSE "normal")

\* the days of the series of product k on which a non-cancelled PO arrives
ArrivalDays(k) ==
  {i \in Days : \E j \in ActiveAt(k) :
     Point(k, i).date = arrivalStr(skus[k].pos[j], clock)}

\* the target day index as the claim defines it
ClaimedTargetDay(k) ==
  IF OrZero(skus[k].currentStock).v = 0 /\ ActiveAt(k) # {}
  THEN IF ArrivalDays(k) = {} THEN HorizonDays
       ELSE LET zero == {i \in SetMin(ArrivalDays(k))..HorizonDays :
                           JsLe(Point(k, i).stock, Num(0))}
            IN  IF zero = {} THEN HorizonDays ELSE SetMin(zero)
  ELSE LET positive == {i \in Days : JsGt(Point(k, i).stock, Num(0))}
       IN  IF positive = {} THEN 0 ELSE SetMax(positive)

\* C10 (as claimed): with currentStock 0 and a non-cancelled PO the target
\* day index is the index in the series of the first day with zero stock at
\* or after the earliest arrival of such a PO (400 when there is none);
\* otherwise it is the index of the last day with stock > 0; the final
\* stock-out date is the date of the series point at that index.
C10_TargetDayIndex ==
  \A k \in Products : dashboardData[k].ok =>
    /\ dashboardData[k].daysUntilStockout = ClaimedTargetDay(k)
    /\ ClaimedTargetDay(k) < HorizonDays =>
         dashboardData[k].finalStockOutDate
           = toLocaleDateString(Point(k, ClaimedTargetDay(k)).date, clock)

\* the first 195 day indices of the series
CoverageDays == 0..(SafeCoverageDays - 1)

\* the sum over the coverage days of the sales of the month of each day,
\* in thirtieths: per month, its sales times the days that fall in it
CoverageNeed(k) ==
  LET daysIn(m) == Cardinality({i \in CoverageDays : MonthOf(today + i) + 1 = m})
      sales(m) == skus[k].monthlySales[m].v
  IN  daysIn(1) * sales(1) + daysIn(2) * sales(2) + daysIn(3) * sales(3)
        + daysIn(4) * sales(4) + daysIn(5) * sales(5) + daysIn(6) * sales(6)
        + daysIn(7) * sales(7) + daysIn(8) * sales(8) + daysIn(9) * sales(9)
        + daysIn(10) * sales(10) + daysIn(11) * sales(11) + daysIn(12) * sales(12)

\* C11 (as claimed): suggestQty = max(0, C - currentStock), C being the sum
\* over the day indices 0..194 of monthlySales[month of that day] / 30,
\* whatever warningDays and the POs are.
C11_SuggestQty ==
  \A k \in Products : dashboardData[k].ok =>
    LET need == CoverageNeed(k) - Scale * skus[k].currentStock.v
    IN  dashboardData[k].suggestQty = (IF need > 0 THEN need ELSE 0)

\* product k has a series day with stock exactly zero dated inside the i-th
\* calendar month counted from the current one (i = 1: the current month)
ZeroDayInMonth(k, i) ==
  LET first == FirstOfMonth(today \div 365, MonthOf(today) + i - 1)
      next == FirstOfMonth(today \div 365, MonthOf(today) + i)
  IN  \E n \in Days :
        /\ Point(k, n).date >= first /\ Point(k, n).date < next
        /\ Point(k, n).stock = Num(0)

\* C12 (as claimed): for each of the 12 calendar months from the current one,
\* monthlyAvailability[i] is false exactly when the series has a day inside
\* that calendar month whose stock is exactly zero.
C12_MonthlyAvailability ==
  \A k \in Products : dashboardData[k].ok =>
    \A i \in 1..MonthsShown :
      dashboardData[k].monthlyAvailability[i] = ~ZeroDayInMonth(k, i)

\* a later reading of the clock
Later == [clock EXCEPT !.ms = @ + 1]

\* the entries of a raw list that filter(Boolean) keeps
Truthy(list) == IF list.arr THEN SelectSeq(list.items, LAMBDA x : ~x.falsy) ELSE <<>>

Loaded == lastOp \in {"init", "onSnapshot"}

\* C13: sanitizeSkus(sanitizeSkus(x)) is sanitizeSkus(x): the same products
\* in the same order with the same ids, field values and POs, also when the
\* second call runs at a later reading of the clock.
C13_SanitizeIdempotent ==
  sanitizeSkus(AsRaw(sanitizeSkus(rawItems, clock)), Later)
    = sanitizeSkus(rawItems, clock)

\* C13 witness: a loaded list with a PO that had no id and a product that had
\* none
C13_Witness ==
  /\ lastOp = "onSnapshot"
  /\ \E k \in 1..Len(Truthy(rawItems)) :
       /\ Truthy(rawItems)[k].id = Undef
       /\ \E j \in 1..Len(Truthy(Truthy(rawItems)[k].pos)) :
            Truthy(Truthy(rawItems)[k].pos)[j].id = Undef
       /\ Len(skus[k].pos) > 0

\* C14 (as claimed): for any PO of a sanitized product the arrival date is
\* never earlier than orderDate, and one more day on prodDays, leg1Days,
\* leg2Days or leg3Days never makes it earlier.
C14_LeadTimeMonotonic ==
  Loaded =>
    \A k \in Products : \A j \in 1..Len(skus[k].pos) :
      skus[k].pos[j].orderDate.t = "date" =>
        /\ arrivalStr(skus[k].pos[j], clock) >= skus[k].pos[j].orderDate.v
        /\ \A f \in DayFields :
             arrivalStr([skus[k].pos[j] EXCEPT ![f] = JsAdd(@, Num(1))], clock)
               >= arrivalStr(skus[k].pos[j], clock)

\* the 14 lifecycle stages
LifecycleStages ==
  {"pre_order", "ordered", "cancelled", "in_production", "prod_complete",
   "leg1_shipped", "leg1_arrived", "leg2_shipped", "leg2_arrived",
   "inspecting", "picking", "bonded_warehouse", "pending_shelving", "shelved"}

\* C15: sanitizeSkus keeps a PO's status when it is one of the 14 lifecycle
\* stages and sets it to 'ordered' otherwise; a PO of the list, a cancelled
\* one included, keeps its status when the list is loaded through the
\* sanitizer again.
C15_StatusKeptOrOrdered ==
  /\ Loaded =>
       \A k \in Products : \A j \in 1..Len(skus[k].pos) :
         LET given == Truthy(Truthy(rawItems)[k].pos)[j].status
         IN  skus[k].pos[j].status = (IF given \in LifecycleStages THEN given ELSE "ordered")
  /\ \A k \in Products : \A j \in 1..Len(skus[k].pos) :
       skus[k].pos[j].status \in LifecycleStages =>
         sanitizeSkus(AsRaw(skus), Later)[k].pos[j].status = skus[k].pos[j].status

\* C15 witness: a load that brought a cancelled PO and one with an unknown
\* status
C15_Witness ==
  /\ lastOp = "onSnapshot"
  /\ \E k \in Products : \E j, n \in 1..Len(skus[k].pos) :
       /\ skus[k].pos[j].status = "cancelled"
       /\ Truthy(Truthy(rawItems)[k].pos)[n].status \notin LifecycleStages
       /\ skus[k].pos[n].status = "ordered"

SkuFields == {"id", "currentStock", "unitCost", "monthlySales", "pos"}
PoFields ==
  {"id", "orderDate", "qty", "prodDays", "leg1Days", "leg2Days", "leg3Days", "status"}

C20_NotArrayLoaded == lastOp = "onSnapshot" /\ ~rawItems.arr /\ skus = <<>>

\* the status claimed for a running stock r and a day's consumption c (both
\* in thirtieths of a unit; a comparison with NaN is false)
ClaimedStatus(r, c) ==
  IF r.t = "num" /\ r.v <= 0 THEN "stockout"
  ELSE IF r.t = "num" /\ c.t = "num" /\ r.v > 0 /\ r.v < c.v * warningDays THEN "low"
  ELSE "ok"

\* C19: on every day of the series the status is 'stockout' exactly when the
\* running stock after consumption and arrivals is <= 0, 'low' exactly when
\* it is > 0 and < dailyConsumption * warningDays, and 'ok' otherwise.
C19_StatusThresholds ==
  \A k \in Products : dashboardData[k].ok =>
    \A i \in Days :
      Point(k, i).status = ClaimedStatus(RunningAt(k, i), ConsumptionAt(k, i))

\* C19 witness: one series with an 'ok' day whose running stock is exactly
\* dailyConsumption * warningDays, a 'low' day and a 'stockout' day
C19_Witness ==
  \E k \in Products :
    /\ dashboardData[k].ok
    /\ \E i \in Days :
         /\ RunningAt(k, i).t = "num" /\ ConsumptionAt(k, i).t = "num"
         /\ RunningAt(k, i).v > 0
         /\ RunningAt(k, i).v = ConsumptionAt(k, i).v * warningDays
         /\ Point(k, i).status = "ok"
    /\ \E i \in Days : Point(k, i).status = "low"
    /\ \E i \in Days : Point(k, i).status = "stockout"

\* C16 (as claimed): a product created by addSku or duplicateSku never
\* receives an id that a product deleted earlier has held.
C16_NoProductIdReused ==
  lastOp \in {"addSku", "duplicateSku"} => skus[Len(skus)].id \notin retiredIds

\* C17 (as claimed): the ids of the products of the list are pairwise
\* distinct, after sanitizeSkus and after every addSku.
C17_ProductIdsDistinct ==
  \A i, j \in Products : i # j => skus[i].id # skus[j].id

\* C18 (as claimed): within each product the ids of the POs are pairwise
\* distinct, after sanitizeSkus and after every addPO and removePO.
C18_PoIdsDistinct ==
  \A k \in Products : \A i, j \in 1..Len(skus[k].pos) :
    i # j => skus[k].pos[i].id # skus[k].pos[j].id

\* C21 (as claimed): generateForecast never ends in an error: for every
\* product of the list, with or without POs, it returns the full series of
\* HorizonDays + 1 days.
C21_ForecastNeverThrows ==
  \A k \in Products :
    /\ dashboardData[k].forecast.ok
    /\ Len(dashboardData[k].forecast.data) = HorizonDays + 1

\* the projected stock of product k is zero on every day of the horizon
AlwaysEmpty(k) == \A i \in Days : Point(k, i).stock = Num(0)

\* C24 (as claimed): a product whose projected stock is zero on every day of
\* the horizon is never classified 'safe', whatever its POs.
C24_EmptyNeverSafe ==
  \A k \in Products :
    dashboardData[k].ok /\ AlwaysEmpty(k) => dashboardData[k].riskLevel # "safe"

\* product k has non-negative monthly sales and non-negative PO quantities
NonNegativeInputs(k) ==
  /\ \A m \in 1..12 : skus[k].monthlySales[m].t = "num" /\ skus[k].monthlySales[m].v >= 0
  /\ \A j \in 1..Len(skus[k].pos) : skus[k].pos[j].qty.t = "num" /\ skus[k].pos[j].qty.v >= 0

\* max(0, currentStock) of product k in thirtieths (a currentStock that is
\* not a number counts as 0, as it does in Number(sku.currentStock || 0))
StartStock(k) ==
  IF skus[k].currentStock.t = "num" /\ skus[k].currentStock.v > 0
  THEN Scale * skus[k].currentStock.v ELSE 0

\* the days of the series of product k on which something arrives
ArrivalDaysOf(k) == {d \in Days : Point(k, d).incomingQty # 0}

RECURSIVE SumIncoming(_, _)
SumIncoming(k, days) ==
  IF days = {} THEN 0
  ELSE LET d == CHOOSE x \in days : TRUE
       IN  Point(k, d).incomingQty + SumIncoming(k, days \ {d})

\* C29: for a product with non-negative monthly sales and non-negative PO
\* quantities the stock never increases on a day with incomingQty = 0 (day 0
\* is compared with max(0, currentStock)), and the stock of day i never
\* exceeds max(0, currentStock) plus the sum of incomingQty over days 0..i.
C29_StockBoundedByArrivals ==
  \A k \in Products : dashboardData[k].ok /\ NonNegativeInputs(k) =>
    LET arrivals == ArrivalDaysOf(k)
    IN  \A i \in Days :
          /\ Point(k, i).stock.t = "num"
          /\ Point(k, i).incomingQty = 0 =>
               Point(k, i).stock.v <= (IF i = 0 THEN StartStock(k)
                                       ELSE Point(k, i - 1).stock.v)
          /\ Point(k, i).stock.v
               <= StartStock(k) + SumIncoming(k, {d \in arrivals : d <= i})

\* C29 witness: a product with sales and a positive arrival inside the
\* horizon, whose stock falls before the arrival and rises with it
C29_Witness ==
  \E k \in Products :
    /\ dashboardData[k].ok /\ NonNegativeInputs(k)
    /\ \E i \in Days \ {0} :
         /\ Point(k, i).incomingQty > 0
         /\ Point(k, i).stock.v > Point(k, i - 1).stock.v
         /\ Point(k, i - 1).stock.v < StartStock(k)

-----------------------------------------------------------------------------
\* Properties of the authentication and of the synchronisation

\* the setDoc calls the server has not answered yet that carry a list
ItemsInFlight == {k \in 1..Len(pending) : pending[k].hasItems}

\* C22: every write of the product list to the remote document is issued
\* only after this client received a snapshot of the document (its first
\* read completed).
C22_WriteOnlyAfterRead ==
  ItemsInFlight # {} => readDone

\* C25: no setDoc carries an empty product list, neither from the cloud
\* auto-save nor from the bootstrap of a missing document, also after every
\* product was deleted or the user logged out.
C25_NoEmptyListWritten ==
  \A k \in ItemsInFlight :
    /\ Len(pending[k].list) > 0
    /\ pending[k].items.arr /\ Len(pending[k].items.items) > 0

\* C25 witness: the list is empty (every product deleted, or emptied by
\* handleLogout) while a user is set, the load lock is open and the ref
\* differs from the list, and the cloud auto-save effect left its timer idle
C25_Witness ==
  /\ skus = <<>>
  /\ user # NoUser /\ isInitialLoadDone
  /\ Stringify(skus) # lastRemoteItemsJSONRef
  /\ ~itemsTimer.armed

\* C26: after a snapshot of an existing document was applied to the local
\* state, and as long as no handler edited the list since, the cloud
\* auto-save has no write of the list scheduled.
C26_NoEchoAfterSnapshot ==
  sinceSnapshot = "clean" => ~itemsTimer.armed

\* the list is in a setDoc this client has sent, or is the list of the
\* remote document
WrittenOrInFlight(list, doc, writes) ==
  \/ doc.exists /\ doc.items = AsRaw(list)
  \/ \E k \in 1..Len(writes) : writes[k].hasItems /\ writes[k].list = list

\* C28: when a snapshot is applied while the debounced cloud write of an
\* edit is still waiting for its timer, the edited list is afterwards still
\* the local list, or it has been written to the remote document.
C28_EditSurvivesSnapshot ==
  [][ ( /\ lastOp \in {"updateSku", "deleteSku"}
        /\ itemsTimer.armed /\ itemsTimer.skus = skus
        /\ lastOp' = "snapshotDelivered" )
      => \/ skus' = skus
         \/ WrittenOrInFlight(skus, server', pending') ]_vars

Unsynced ==
  /\ failedItems # <<>>
  /\ ~(server.exists /\ server.items = AsRaw(failedItems))

\* C23: when an automatic cloud write of the list has failed, the list is
\* eventually written to the remote document, with a server that accepts
\* writes again and without a further edit.
C23_FailedWriteRetried ==
  Unsynced ~> ~Unsynced

\* no write is scheduled and none is unanswered
Quiet == pending = <<>> /\ ~itemsTimer.armed /\ ~settingsTimer.armed

\* C27: once the user and the outside have stopped acting, the
\* synchronisation comes to rest: from some point on no remote write is
\* scheduled or sent any more, whatever snapshot was received.
C27_SyncQuiesces ==
  <>[]Quiet

====
